---- MODULE Spec2Model ----
(***************************************************************************)
(* The amount-validation state machine of the bridge UI's TokenInput       *)
(* component (TokenInput.svelte), and the NFT metadata fetcher             *)
(* parseNFTMetadata (parseNFTMetadata.ts), each under its own              *)
(* specification: Spec / SpecFair and SpecNFT.                             *)
(*                                                                         *)
(* The component runs on a single-threaded event loop.  Every action below *)
(* is one run-to-completion segment of JavaScript: an event handler, a     *)
(* timer callback or the continuation of an `await`, followed by Svelte's  *)
(* flush of the component's reactive statements.  A routine suspended at   *)
(* an `await` is an entry of `inflight`; its continuation is a later       *)
(* action.                                                                 *)
(***************************************************************************)
EXTENDS Integers, Sequences, FiniteSets, Bags, TLC

(***************************************************************************)
(* Bounds of the model.                                                    *)
(***************************************************************************)
\* largest balance: of a token (what fetchBalance and getMaxAmountToBridge
\* may answer) and of the native currency
MaxBalance == 1
\* largest number of routines suspended at an await at the same time
MaxInFlight == 2
\* largest number of events (user input, store changes from outside) in a run
MaxEvents == 4
\* the calls of the debounced function one timer stands for are counted up to
MaxCalls == 2

\* debounce(validateAmount, 300)
DebounceMs == 300
\* how far the clock advances in one Tick (ms)
TickMs == DebounceMs \div 2

(***************************************************************************)
(* Data.                                                                   *)
(***************************************************************************)
\* TokenType, plus one type outside the enumeration
TokenTypes == {"ETH", "ERC20", "ERC721", "ERC1155", "ERC777"}

\* `null` / `undefined` of each kind of value
NoToken == [id |-> "none", type |-> "none", decimals |-> 0]
NoAddress == "none"
NoChain == [id |-> 0]
\* a balance that is null; its `token` names no token
NoBalance == [value |-> 0, token |-> "none"]

\* The tokens the dropdown offers: one of each type.  Fungible tokens carry
\* decimals (scaled down to 1 digit), NFTs and the unknown type carry none.
Token(type) ==
  [id |-> type, type |-> type,
   decimals |-> IF type \in {"ETH", "ERC20"} THEN 1 ELSE 0]

Tokens == {Token(ty) : ty \in TokenTypes}

\* $account: disconnected or connected
Accounts ==
  {[address |-> NoAddress, isConnected |-> FALSE],
   [address |-> "0xUser", isConnected |-> TRUE]}

Chains == {NoChain, [id |-> 1]}

\* $recipientAddress: unset, or an explicit recipient
Recipients == {NoAddress, "0xRecipient"}

\* What a fetchBalance call can answer for `token`: a balance record, or null
Balances(token) ==
  {[value |-> v, token |-> token.id] : v \in 0..MaxBalance} \cup {NoBalance}

\* The texts the amount <input> can hand to handleAmountInputChange
Texts ==
  {<<>>, <<"1">>, <<"0", ".", "1">>, <<"1", ",", "5">>}

Digit(c) ==
  CASE c = "0" -> 0 [] c = "1" -> 1 [] c = "2" -> 2 [] c = "3" -> 3
    [] c = "4" -> 4 [] c = "5" -> 5 [] c = "6" -> 6 [] c = "7" -> 7
    [] c = "8" -> 8 [] c = "9" -> 9 [] OTHER -> -1

RECURSIVE DigitsValue(_)
\* the number a string of digits denotes ('' denotes 0, as BigInt('') does)
DigitsValue(text) ==
  IF text = <<>> THEN 0
  ELSE 10 * DigitsValue(SubSeq(text, 1, Len(text) - 1)) + Digit(text[Len(text)])

AllDigits(text) == \A i \in DOMAIN text : Digit(text[i]) >= 0

RECURSIVE Pow10(_)
Pow10(n) == IF n = 0 THEN 1 ELSE 10 * Pow10(n - 1)

Thrown == [ok |-> FALSE, value |-> 0]
Value(v) == [ok |-> TRUE, value |-> v]

\* BigInt(value): a SyntaxError unless the text is all digits
BigInt(text) == IF AllDigits(text) THEN Value(DigitsValue(text)) ELSE Thrown

\* /[.,]/.test(value)
HasSeparator(text) == \E i \in DOMAIN text : text[i] \in {".", ","}

\* viem's parseUnits(value, decimals): integer and fraction split at '.', the
\* fraction rounded to `decimals` digits and padded with zeros; any other
\* character is an InvalidDecimalNumberError
parseUnits(text, decimals) ==
  LET dots == {i \in DOMAIN text : text[i] = "."}
      cut == IF dots = {} THEN Len(text) + 1 ELSE CHOOSE i \in dots : TRUE
      integer == SubSeq(text, 1, cut - 1)
      fraction == SubSeq(text, cut + 1, Len(text))
      kept == SubSeq(fraction, 1, IF Len(fraction) < decimals THEN Len(fraction) ELSE decimals)
      up == Len(fraction) > decimals /\ Digit(fraction[decimals + 1]) >= 5
  IN IF Cardinality(dots) > 1 \/ ~AllDigits(integer) \/ ~AllDigits(fraction)
     THEN Thrown
     ELSE Value(DigitsValue(integer) * Pow10(decimals)
                + DigitsValue(kept) * Pow10(decimals - Len(kept))
                + (IF up THEN 1 ELSE 0))


(***************************************************************************)
(* State.                                                                  *)
(***************************************************************************)
VARIABLES
  selectedToken,          \* $selectedToken
  previousSelectedToken,  \* let previousSelectedToken
  account,                \* $account
  connectedSourceChain,   \* $connectedSourceChain
  destNetwork,            \* $destNetwork
  ethBalance,             \* $ethBalance
  tokenBalance,           \* $tokenBalance
  enteredAmount,          \* $enteredAmount
  validatingAmount,       \* $validatingAmount
  computingBalance,       \* $computingBalance
  insufficientBalance,    \* $insufficientBalance
  insufficientAllowance,  \* $insufficientAllowance
  errorComputingBalance,  \* $errorComputingBalance
  inflight,               \* bag of the routines suspended at an await
  timer,                  \* the debounce timer of debouncedValidateAmount
  events,                 \* number of events so far
  last,                   \* history: what the last segment did
  nftCall                 \* one call of parseNFTMetadata

vars ==
  <<selectedToken, previousSelectedToken, account, connectedSourceChain,
    destNetwork, ethBalance, tokenBalance, enteredAmount, validatingAmount,
    computingBalance, insufficientBalance, insufficientAllowance,
    errorComputingBalance, inflight, timer, events, last, nftCall>>

\* the variables of the TokenInput component
componentVars ==
  <<selectedToken, previousSelectedToken, account, connectedSourceChain,
    destNetwork, ethBalance, tokenBalance, enteredAmount, validatingAmount,
    computingBalance, insufficientBalance, insufficientAllowance,
    errorComputingBalance, inflight, timer, events, last>>

\* parseNFTMetadata has not been called
NoCall == [pc |-> "idle"]

\* What one segment did.  op: "input" for an amount input, "debounced" for
\* the debounce timer's callback, "max" for a click on the max button,
\* "maxFailed" for a failure of getMaxAmountToBridge, "fetchFailed" for a
\* failure of fetchBalance, "other" for the rest; armed: it called
\* debouncedValidateAmount; elapsed, sinceInput: what the timer showed when
\* its callback ran, calls: how many calls it stood for; val: how the last
\* run of validateAmount in the segment ended; valFetch: that run called fetchBalance; reset: the trigger of the
\* reset the segment called; resetDone: a reset finished in the segment;
\* fetched: a reset of the segment called fetchBalance.
NoHistory ==
  [op |-> "other", armed |-> FALSE, elapsed |-> 0, sinceInput |-> 0,
   calls |-> 0, val |-> "none", valFetch |-> FALSE, reset |-> "none",
   resetDone |-> FALSE, fetched |-> FALSE]

\* The stores and locals as one record a segment threads through its
\* statements.  recipientAddress is read-only here: it is an input.
State(recipient) ==
  [selectedToken |-> selectedToken,
   previousSelectedToken |-> previousSelectedToken,
   account |-> account,
   connectedSourceChain |-> connectedSourceChain,
   destNetwork |-> destNetwork,
   ethBalance |-> ethBalance,
   tokenBalance |-> tokenBalance,
   enteredAmount |-> enteredAmount,
   validatingAmount |-> validatingAmount,
   computingBalance |-> computingBalance,
   insufficientBalance |-> insufficientBalance,
   insufficientAllowance |-> insufficientAllowance,
   errorComputingBalance |-> errorComputingBalance,
   inflight |-> inflight,
   timer |-> timer,
   recipientAddress |-> recipient,
   dirty |-> FALSE,
   last |-> NoHistory]

Commit(s) ==
  /\ selectedToken' = s.selectedToken
  /\ previousSelectedToken' = s.previousSelectedToken
  /\ account' = s.account
  /\ connectedSourceChain' = s.connectedSourceChain
  /\ destNetwork' = s.destNetwork
  /\ ethBalance' = s.ethBalance
  /\ tokenBalance' = s.tokenBalance
  /\ enteredAmount' = s.enteredAmount
  /\ validatingAmount' = s.validatingAmount
  /\ computingBalance' = s.computingBalance
  /\ insufficientBalance' = s.insufficientBalance
  /\ insufficientAllowance' = s.insufficientAllowance
  /\ errorComputingBalance' = s.errorComputingBalance
  /\ inflight' = s.inflight
  /\ timer' = s.timer
  /\ last' = s.last
  /\ UNCHANGED nftCall

\* a routine suspended at `await fetchBalance(...)` or
\* `await getMaxAmountToBridge(...)`; token is the token fetchBalance was
\* asked for
Suspended(kind, token) == [kind |-> kind, token |-> token]

Await(s, call) == [s EXCEPT !.inflight = @ (+) SetToBag({call})]

InFlight == BagCardinality(inflight)

(***************************************************************************)
(* Reactive declarations.  Svelte recomputes `$: x = ...` when it flushes  *)
(* the component, after the running segment has ended.  Code that reads    *)
(* skipValidate inside a segment therefore sees the value computed from    *)
(* the stores as they were when the segment began: the operators below are *)
(* evaluated on the unprimed variables.                                    *)
(***************************************************************************)
\* $: disabled = !$account || !$account.isConnected
disabled == ~account.isConnected

\* $: validAmount = $enteredAmount > BigInt(0)
validAmount == enteredAmount > 0

\* $: skipValidate = ..., as the flush computes it from the stores s
skipValidateIn(s) ==
  \/ s.connectedSourceChain = NoChain
  \/ s.destNetwork = NoChain
  \/ s.tokenBalance = NoBalance
  \/ s.selectedToken = NoToken
  \/ ~(s.ethBalance > 0)
  \/ ~(s.enteredAmount > 0)

\* skipValidate as the running segment sees it
skipValidate == skipValidateIn(State(NoAddress))

\* $: validInput = ...
validInput ==
  /\ enteredAmount > 0
  /\ tokenBalance # NoBalance
  /\ enteredAmount <= tokenBalance.value

\* disabled={disabled || $errorComputingBalance || $computingBalance} of the
\* amount input and of the max button
controlsDisabled == disabled \/ errorComputingBalance \/ computingBalance


(***************************************************************************)
(* validateAmount.                                                         *)
(***************************************************************************)
Finished(s, how, token) == [s EXCEPT !.last.val = how]

\* `$tokenBalance?.value` as a condition: null, undefined and 0n are falsy
HasBalanceValue(s) == s.tokenBalance # NoBalance /\ s.tokenBalance.value # 0

\* validateBalance with no `default:` case: an unknown type falls through
validateBalanceNoDefault(s, token) ==
  LET done(r) ==
        Finished([r EXCEPT !.validatingAmount = FALSE,
                           !.computingBalance = FALSE], "done", token)
  IN CASE token.type \in {"ERC20", "ERC1155"} ->
            IF HasBalanceValue(s)
               /\ (s.ethBalance <= 0 \/ s.enteredAmount > s.tokenBalance.value)
            THEN done([s EXCEPT !.insufficientBalance = TRUE])
            ELSE done(s)
       [] token.type \in {"ETH", "ERC721"} ->
            IF s.enteredAmount >= s.ethBalance
            THEN done([s EXCEPT !.insufficientBalance = TRUE])
            ELSE done(s)
       [] OTHER -> done(s)

\* switch (token.type) { ... } and the two assignments after it; a type
\* outside the four cases throws UnknownTokenTypeError, which rejects the
\* promise validateAmount returned and leaves the flags as they are
validateBalance(s, token) ==
  LET done(r) ==
        Finished([r EXCEPT !.validatingAmount = FALSE,
                           !.computingBalance = FALSE], "done", token)
  IN CASE token.type \in {"ERC20", "ERC1155"} ->
            IF HasBalanceValue(s)
               /\ (s.ethBalance <= 0 \/ s.enteredAmount > s.tokenBalance.value)
            THEN done([s EXCEPT !.insufficientBalance = TRUE])
            ELSE done(s)
       [] token.type \in {"ETH", "ERC721"} ->
            IF s.enteredAmount >= s.ethBalance
            THEN done([s EXCEPT !.insufficientBalance = TRUE])
            ELSE done(s)
       [] OTHER -> Finished(s, "threw", token)

\* validateAmount(token) up to its return or its await.  skip is the value
\* of skipValidate the segment sees.
validateAmount(s, token, skip) ==
  LET user == s.account.address
      s1 == [s EXCEPT !.validatingAmount = TRUE,
                      !.insufficientBalance = FALSE,
                      !.insufficientAllowance = FALSE,
                      !.computingBalance = TRUE]
      stop(r) == [r EXCEPT !.validatingAmount = FALSE,
                           !.computingBalance = FALSE]
      to == IF s.recipientAddress # NoAddress THEN s.recipientAddress ELSE user
  IN IF s.connectedSourceChain.id = 0 \/ user = NoAddress
     THEN Finished(s, "noAccount", token)
     ELSE IF skip
     THEN Finished(stop(s1), "skipped", token)
     ELSE IF to = NoAddress \/ token = NoToken
     THEN Finished(stop(s1), "noRecipient", token)
     ELSE IF s1.tokenBalance = NoBalance
     THEN Finished(Await([s1 EXCEPT !.last.valFetch = TRUE],
                         Suspended("validateAmount", token)),
                   "awaiting", token)
     ELSE validateBalance(s1, token)

\* validateAmount after `await fetchBalance(...)` answered `balance`
validateAmountResume(s, token, balance) ==
  LET s1 == [s EXCEPT !.tokenBalance = balance]
      s2 == IF ~HasBalanceValue(s1)
            THEN [s1 EXCEPT !.insufficientBalance = TRUE,
                            !.validatingAmount = FALSE]
            ELSE s1
  IN validateBalance(s2, token)

(***************************************************************************)
(* reset.                                                                  *)
(***************************************************************************)
\* previousSelectedToken = $selectedToken invalidates the local: replacing
\* an object always counts as a change, replacing null only when the value
\* differs
AssignPrevious(s) ==
  [s EXCEPT !.previousSelectedToken = s.selectedToken,
            !.dirty = @ \/ s.previousSelectedToken # NoToken
                        \/ s.selectedToken # s.previousSelectedToken]

\* $enteredAmount = v; the store notifies only when the value differs
SetEnteredAmount(s, v) ==
  [s EXCEPT !.enteredAmount = v, !.dirty = @ \/ v # s.enteredAmount]

\* reset without the `$selectedToken.type !== TokenType.ETH` test
resetFetchesNative(s, skip, trigger) ==
  LET s1 == SetEnteredAmount([s EXCEPT !.computingBalance = TRUE,
                                       !.last.reset = trigger], 0)
      end(r) == [r EXCEPT !.computingBalance = FALSE,
                          !.last.resetDone = TRUE]
  IN IF s1.account.address # NoAddress /\ s1.account.isConnected
     THEN LET s2 == validateAmount(s1, s1.selectedToken, skip)
          IN IF s2.selectedToken # NoToken
             THEN Await([s2 EXCEPT !.last.fetched = TRUE],
                        Suspended("reset", s2.selectedToken))
             ELSE end(AssignPrevious(s2))
     ELSE end(s1)

\* reset() up to its return or its await.  trigger names the caller.
reset(s, skip, trigger) ==
  LET s1 == SetEnteredAmount([s EXCEPT !.computingBalance = TRUE,
                                       !.last.reset = trigger], 0)
      end(r) == [r EXCEPT !.computingBalance = FALSE,
                          !.last.resetDone = TRUE]
  IN IF s1.account.address # NoAddress /\ s1.account.isConnected
     THEN LET s2 == validateAmount(s1, s1.selectedToken, skip)
          IN IF s2.selectedToken # NoToken /\ s2.selectedToken.type # "ETH"
             THEN Await([s2 EXCEPT !.last.fetched = TRUE],
                        Suspended("reset", s2.selectedToken))
             ELSE end(AssignPrevious(s2))
     ELSE end(s1)

\* reset after `await fetchBalance(...)` answered `balance`
resetResume(s, balance) ==
  LET s1 == AssignPrevious([s EXCEPT !.tokenBalance = balance])
  IN [s1 EXCEPT !.computingBalance = FALSE, !.last.resetDone = TRUE]

(***************************************************************************)
(* The flush that ends every segment.  The reactive statement              *)
(*   $: if ($selectedToken !== previousSelectedToken) { log(.., $enteredAmount); reset() } *)
(* depends on $selectedToken, previousSelectedToken and $enteredAmount and *)
(* runs once per flush when one of them was invalidated; it precedes the   *)
(* declaration of skipValidate, so the reset it calls still sees the       *)
(* skipValidate of the previous flush.                                     *)
(***************************************************************************)
Flush(s, skip) ==
  IF s.dirty /\ s.selectedToken # s.previousSelectedToken
  THEN reset(s, skip, "token")
  ELSE s

\* one segment: its effect s, then the flush
Segment(s) ==
  LET f == Flush(s, skipValidate)
  IN /\ BagCardinality(f.inflight) <= MaxInFlight
     /\ Commit(f)

\* a segment an event from outside starts
Event(s) ==
  /\ events < MaxEvents
  /\ events' = events + 1
  /\ Segment(s)

\* a segment the component's own timer or a collaborator's answer starts
Callback(s) ==
  /\ UNCHANGED events
  /\ Segment(s)


(***************************************************************************)
(* The debounce timer.  elapsed is the time since the last call of         *)
(* debouncedValidateAmount, sinceInput the time since the last amount      *)
(* input event (both stop at DebounceMs), calls the number of calls the    *)
(* pending timer stands for (MaxCalls stands for that many or more).       *)
(***************************************************************************)
Min(a, b) == IF a < b THEN a ELSE b

Idle == [pending |-> FALSE, elapsed |-> 0, sinceInput |-> 0, calls |-> 0]

\* debounce(validateAmount, 300): a call cancels the pending timer and
\* starts a new one
debouncedValidateAmount(s) ==
  [s EXCEPT !.timer.pending = TRUE, !.timer.elapsed = 0,
            !.timer.calls = Min(@ + 1, MaxCalls), !.last.armed = TRUE]

(***************************************************************************)
(* handleAmountInputChange and useMaxAmount.                               *)
(***************************************************************************)
\* handleAmountInputChange calling validateAmount() where the code calls
\* debouncedValidateAmount()
handleAmountInputChangeUndebounced(s, text) ==
  LET token == s.selectedToken
      s1 == [s EXCEPT !.validatingAmount = TRUE,
                      !.errorComputingBalance = FALSE]
      parsed == IF token.type # "ERC1155" /\ token.type # "ERC721"
                   /\ token.decimals = 0
                THEN BigInt(text)
                ELSE parseUnits(text, token.decimals)
  IN IF token = NoToken THEN s
     ELSE IF token.type = "ERC1155" /\ HasSeparator(text)
     THEN [s1 EXCEPT !.errorComputingBalance = TRUE]
     ELSE IF ~parsed.ok
     THEN s1
     ELSE validateAmount(SetEnteredAmount(s1, parsed.value), token,
                         skipValidate)

handleAmountInputChange(s, text) ==
  LET token == s.selectedToken
      s1 == [s EXCEPT !.validatingAmount = TRUE,
                      !.errorComputingBalance = FALSE]
      parsed == IF token.type # "ERC1155" /\ token.type # "ERC721"
                   /\ token.decimals = 0
                THEN BigInt(text)
                ELSE parseUnits(text, token.decimals)
  IN IF token = NoToken THEN s
     ELSE IF token.type = "ERC1155" /\ HasSeparator(text)
     THEN [s1 EXCEPT !.errorComputingBalance = TRUE]
     ELSE IF ~parsed.ok
     THEN s1       \* BigInt / parseUnits threw: the handler ends here
     ELSE debouncedValidateAmount(SetEnteredAmount(s1, parsed.value))

\* useMaxAmount raising computingBalance before it awaits the estimator
useMaxAmountBusy(s) ==
  IF \/ s.selectedToken = NoToken
     \/ s.connectedSourceChain = NoChain
     \/ s.destNetwork = NoChain
     \/ s.tokenBalance = NoBalance
     \/ s.account.address = NoAddress
  THEN s
  ELSE Await([s EXCEPT !.computingBalance = TRUE],
             Suspended("useMaxAmount", NoToken))

\* useMaxAmount() up to its return or its await
useMaxAmount(s) ==
  IF \/ s.selectedToken = NoToken
     \/ s.connectedSourceChain = NoChain
     \/ s.destNetwork = NoChain
     \/ s.tokenBalance = NoBalance
     \/ s.account.address = NoAddress
  THEN s
  ELSE Await(s, Suspended("useMaxAmount", NoToken))

\* useMaxAmount after `await getMaxAmountToBridge(...)` answered maxAmount;
\* `$selectedToken.decimals` throws on a null token, which the catch logs
useMaxAmountResume(s, maxAmount, skip) ==
  LET s1 == SetEnteredAmount(s, maxAmount)
  IN IF s1.selectedToken = NoToken THEN s1
     ELSE validateAmount(s1, s1.selectedToken, skip)

(***************************************************************************)
(* Initial state, after onMount.  The network and balance stores belong to *)
(* the application and hold what it set before the component was mounted;  *)
(* no wallet is connected yet, no token is selected and onMount zeroes the *)
(* entered amount.                                                         *)
(***************************************************************************)
Init ==
  /\ selectedToken = NoToken
  /\ previousSelectedToken = NoToken
  /\ account = [address |-> NoAddress, isConnected |-> FALSE]
  /\ connectedSourceChain \in Chains
  /\ destNetwork \in {NoChain, [id |-> 2]}
  /\ ethBalance \in 0..MaxBalance
  /\ tokenBalance = NoBalance
  /\ enteredAmount = 0
  /\ validatingAmount = FALSE
  /\ computingBalance = FALSE
  /\ insufficientBalance = FALSE
  /\ insufficientAllowance = FALSE
  /\ errorComputingBalance = FALSE
  /\ inflight = EmptyBag
  /\ timer = Idle
  /\ events = 0
  /\ last = NoHistory
  /\ nftCall = NoCall

(***************************************************************************)
(* Actions: one per event.                                                 *)
(***************************************************************************)
\* on:input of the amount box
AmountInput ==
  /\ ~controlsDisabled
  /\ \E text \in Texts :
       LET s == State(NoAddress)
       IN Event(handleAmountInputChange(
                    [s EXCEPT !.timer.sinceInput = 0, !.last.op = "input"],
                    text))

\* time passes while the debounce timer is pending
Tick ==
  /\ timer.pending
  /\ timer.elapsed < DebounceMs
  /\ timer' = [timer EXCEPT !.elapsed = Min(@ + TickMs, DebounceMs),
                            !.sinceInput = Min(@ + TickMs, DebounceMs)]
  /\ last' = NoHistory
  /\ UNCHANGED <<selectedToken, previousSelectedToken, account,
                 connectedSourceChain, destNetwork, ethBalance, tokenBalance,
                 enteredAmount, validatingAmount, computingBalance,
                 insufficientBalance, insufficientAllowance,
                 errorComputingBalance, inflight, events, nftCall>>

\* the debounce timer fires: validateAmount() with its default argument
DebouncedValidate ==
  /\ timer.pending
  /\ timer.elapsed >= DebounceMs
  /\ \E recipient \in Recipients :
       LET s == State(recipient)
       IN Callback(validateAmount(
                     [s EXCEPT !.timer = Idle,
                               !.last.op = "debounced",
                               !.last.elapsed = timer.elapsed,
                               !.last.sinceInput = timer.sinceInput,
                               !.last.calls = timer.calls],
                     s.selectedToken, skipValidate))

\* on:click of the max button
MaxClick ==
  /\ ~controlsDisabled
  /\ LET s == State(NoAddress)
     IN Event(useMaxAmount([s EXCEPT !.last.op = "max"]))

\* getMaxAmountToBridge answers a suspended useMaxAmount
MaxAmountReturns ==
  \E call \in BagToSet(inflight), recipient \in Recipients :
    /\ call.kind = "useMaxAmount"
    /\ LET s == [State(recipient) EXCEPT
                   !.inflight = @ (-) SetToBag({call})]
       IN \/ \E maxAmount \in 0..MaxBalance :
               Callback(useMaxAmountResume(s, maxAmount, skipValidate))
          \/ Callback([s EXCEPT !.last.op = "maxFailed"])

\* fetchBalance answers a suspended reset or validateAmount, or fails
FetchBalanceReturns ==
  \E call \in BagToSet(inflight) :
    /\ call.kind \in {"reset", "validateAmount"}
    /\ LET s == [State(NoAddress) EXCEPT
                   !.inflight = @ (-) SetToBag({call})]
       IN \/ \E balance \in Balances(call.token) :
               Callback(IF call.kind = "reset"
                        THEN resetResume(s, balance)
                        ELSE validateAmountResume(s, call.token, balance))
          \/ Callback([s EXCEPT !.last.op = "fetchFailed"])

\* the token dropdown (bind:value={$selectedToken}, bind:disabled)
TokenChange ==
  /\ ~disabled
  /\ \E token \in Tokens \ {selectedToken}, recipient \in Recipients :
       Event([State(recipient) EXCEPT
                !.selectedToken = token, !.dirty = TRUE])

\* <OnAccount change={reset} />
AccountChange ==
  \E acc \in Accounts \ {account}, recipient \in Recipients :
    Event(reset([State(recipient) EXCEPT !.account = acc],
                skipValidate, "account"))

\* <OnNetwork change={reset} />
NetworkChange ==
  \E chain \in Chains \ {connectedSourceChain}, recipient \in Recipients :
    Event(reset([State(recipient) EXCEPT
                   !.connectedSourceChain = chain],
                skipValidate, "network"))

\* the destination network and the native balance are written elsewhere
DestNetworkChange ==
  \E chain \in {NoChain, [id |-> 2]} \ {destNetwork} :
    Event([State(NoAddress) EXCEPT !.destNetwork = chain])

EthBalanceChange ==
  \E v \in (0..MaxBalance) \ {ethBalance} :
    Event([State(NoAddress) EXCEPT !.ethBalance = v])

Next ==
  \/ AmountInput
  \/ Tick
  \/ DebouncedValidate
  \/ MaxClick
  \/ MaxAmountReturns
  \/ FetchBalanceReturns
  \/ TokenChange
  \/ AccountChange
  \/ NetworkChange
  \/ DestNetworkChange
  \/ EthBalanceChange

Spec == Init /\ [][Next]_vars

\* The browser fires a pending timer and every promise the component awaits
\* settles; the user and the application owe the component no event.
SpecFair ==
  /\ Spec
  /\ WF_vars(Tick)
  /\ WF_vars(DebouncedValidate)
  /\ WF_vars(MaxAmountReturns)
  /\ WF_vars(FetchBalanceReturns)

(***************************************************************************)
(* parseNFTMetadata.  A text (a uri, a url) is a sequence of pieces, each  *)
(* a string; the piece "{id}" is the id placeholder.                       *)
(***************************************************************************)
\* the token types parseNFTMetadata is called with
NftTypes == {"ETH", "ERC20", "ERC721", "ERC1155"}

\* the content ids extractIPFSCidFromUrl recognises
Cids == {"QmCid"}

\* token.uri: missing or empty, with one placeholder, with two, without any,
\* with and without a content id, and texts that are no url
Uris ==
  {<<>>,
   <<"https://", "host", "/", "{id}">>,
   <<"ipfs://", "QmCid", "/", "{id}", ".json">>,
   <<"ipfs://", "QmCid", "/", "{id}", "/", "{id}">>,
   <<"ipfs://", "QmCid", "/", "meta">>,
   <<"no url">>,
   <<"no url", "{id}">>}

\* token.tokenId
TokenIds == {0, 12}

NftTokens == [type : NftTypes, uri : Uris, tokenId : TokenIds]

\* the four fields of NFTMetadata
Fields == {"description", "external_url", "image", "name"}

\* a field of the payload: left out, null, the empty text, or a text
Absent == "<undefined>"
Null == "<null>"
FieldValues == {Absent, Null, "", "a text"}

Payloads == [Fields -> FieldValues]

NoPayload == [f \in Fields |-> Absent]

\* What `await request.get(url)` can yield: it throws; it resolves to
\* nothing (a falsy value); it resolves to a response whose data is
\* undefined, the empty string, or a parsed object.
GetResults ==
  {[kind |-> "throw", body |-> "none", data |-> NoPayload],
   [kind |-> "falsy", body |-> "none", data |-> NoPayload],
   [kind |-> "response", body |-> "undefined", data |-> NoPayload],
   [kind |-> "response", body |-> "empty", data |-> NoPayload]}
  \cup {[kind |-> "response", body |-> "object", data |-> p] : p \in Payloads}

\* n.toString() for n >= 0
RECURSIVE toString(_)
toString(n) ==
  LET digit(d) == <<"0", "1", "2", "3", "4", "5", "6", "7", "8", "9">>[d + 1]
  IN IF n < 10 THEN <<digit(n)>>
     ELSE toString(n \div 10) \o <<digit(n % 10)>>

\* text.includes(piece)
includes(text, piece) == \E i \in DOMAIN text : text[i] = piece

\* text.replace(piece, by): String.prototype.replace with a string pattern
\* replaces the first occurrence only
replace(text, piece, by) ==
  IF ~includes(text, piece) THEN text
  ELSE LET i == CHOOSE k \in DOMAIN text :
                  /\ text[k] = piece
                  /\ \A j \in 1..(k - 1) : text[j] # piece
       IN SubSeq(text, 1, i - 1) \o by \o SubSeq(text, i + 1, Len(text))

\* safeParseUrl(uri): the url, or nothing (the empty text) when the uri does
\* not parse
safeParseUrl(uri) ==
  IF uri # <<>> /\ uri[1] \in {"https://", "ipfs://"} THEN uri ELSE <<>>

\* extractIPFSCidFromUrl(url).cid, "none" for null
extractIPFSCidFromUrl(url) ==
  IF \E i \in DOMAIN url : url[i] \in Cids
  THEN url[CHOOSE i \in DOMAIN url : url[i] \in Cids]
  ELSE "none"

\* useGateway(url, tokenId): the gateway url, or nothing (null)
useGateway(url, tokenId) ==
  LET cid == extractIPFSCidFromUrl(url)
  IN IF cid # "none"
     THEN <<"https://ipfs.io/ipfs/", cid, "/">> \o toString(tokenId)
            \o <<".json">>
     ELSE <<>>

\* One call of parseNFTMetadata.  pc: where the call is suspended or how it
\* ended; given: the token as passed; token: the token object, which the
\* call mutates; url: the parsed url; gets: the urls of the GETs issued so
\* far; probes: the answers of checkForAdblocker so far; primary: what the
\* primary GET yielded; err: the error thrown; metadata: the record
\* returned; from: the kind of data of the response it was built from;
\* payload: that data, field by field.
NewCall(token) ==
  [pc |-> "start", given |-> token, token |-> token, url |-> <<>>,
   gets |-> <<>>, probes |-> <<>>,
   primary |-> [kind |-> "none", body |-> "none"],
   err |-> "none", metadata |-> NoPayload, from |-> "none",
   payload |-> NoPayload]

Throw(c, err) == [c EXCEPT !.pc = "threw", !.err = err]

\* `new Error(...)` returned, not thrown, by retry
ErrorValue == [kind |-> "error", body |-> "none", data |-> NoPayload]

\* x === undefined ? '' : x
OrEmptyUndefinedOnly(x) == IF x = Absent THEN "" ELSE x

\* x || '' for a field x of the payload
OrEmpty(x) == IF x \in {Absent, Null, ""} THEN "" ELSE x

\* if (token.uri.includes('{id}')) token.uri = token.uri.replace(...)
Substitute(token) ==
  IF includes(token.uri, "{id}")
  THEN [token EXCEPT !.uri = replace(@, "{id}", toString(token.tokenId))]
  ELSE token

\* lines 49-61: the last test of json, then the mapping of the fields.  A
\* response without data makes `json.data.description` a TypeError; the
\* fields of an empty string are undefined.
Finish(c, json) ==
  IF json.kind \in {"falsy", "error"}
  THEN Throw(c, "No metadata found")
  ELSE IF json.body = "undefined"
  THEN Throw(c, "TypeError")
  ELSE [c EXCEPT !.pc = "returned", !.from = json.body,
                 !.payload = json.data,
                 !.metadata = [f \in Fields |-> OrEmpty(json.data[f])]]

\* lines 39-47 up to the await of checkForAdblocker, then Finish
AfterGet(c, json) ==
  IF json.kind = "falsy"
  THEN [c EXCEPT !.pc = "probe"]
  ELSE Finish(c, json)

\* retry(url, tokenId) called at `site` ("catch": line 37, "blocked": line
\* 43), up to the await of the fallback GET; with no gateway url it returns
\* an Error and the caller goes on
retry(c, site) ==
  LET newUrl == useGateway(c.url, c.token.tokenId)
  IN IF newUrl # <<>>
     THEN [c EXCEPT !.gets = Append(@, newUrl),
                    !.pc = IF site = "catch" THEN "retryCatch"
                           ELSE "retryBlocked"]
     ELSE IF site = "catch" THEN AfterGet(c, ErrorValue)
     ELSE Finish(c, ErrorValue)

\* parseNFTMetadata testing the uri before the token type
parseNFTMetadataUriFirst(c) ==
  LET token == c.token
      substituted == Substitute(token)
      url == safeParseUrl(substituted.uri)
  IN IF token.uri = <<>>
     THEN Throw(c, "No token URI found")
     ELSE IF token.type # "ERC721" /\ token.type # "ERC1155"
     THEN Throw(c, "Not a NFT")
     ELSE IF url = <<>>
     THEN Throw([c EXCEPT !.token = substituted], "Invalid token URI")
     ELSE [c EXCEPT !.token = substituted, !.url = url,
                    !.gets = Append(@, url), !.pc = "get"]

\* parseNFTMetadata(token) up to the await of the primary GET
parseNFTMetadata(c) ==
  LET token == c.token
      substituted == Substitute(token)
      url == safeParseUrl(substituted.uri)
  IN IF token.type # "ERC721" /\ token.type # "ERC1155"
     THEN Throw(c, "Not a NFT")
     ELSE IF token.uri = <<>>
     THEN Throw(c, "No token URI found")
     ELSE IF url = <<>>
     THEN Throw([c EXCEPT !.token = substituted], "Invalid token URI")
     ELSE [c EXCEPT !.token = substituted, !.url = url,
                    !.gets = Append(@, url), !.pc = "get"]

\* SpecNFT starts at a call of parseNFTMetadata; the component is idle
InitNFT ==
  /\ selectedToken = NoToken
  /\ previousSelectedToken = NoToken
  /\ account = [address |-> NoAddress, isConnected |-> FALSE]
  /\ connectedSourceChain = NoChain
  /\ destNetwork = NoChain
  /\ ethBalance = 0
  /\ tokenBalance = NoBalance
  /\ enteredAmount = 0
  /\ validatingAmount = FALSE
  /\ computingBalance = FALSE
  /\ insufficientBalance = FALSE
  /\ insufficientAllowance = FALSE
  /\ errorComputingBalance = FALSE
  /\ inflight = EmptyBag
  /\ timer = Idle
  /\ events = 0
  /\ last = NoHistory
  /\ nftCall \in {NewCall(token) : token \in NftTokens}

\* the call runs to its first await or to a throw
ParseStart ==
  /\ nftCall.pc = "start"
  /\ nftCall' = parseNFTMetadata(nftCall)
  /\ UNCHANGED componentVars

\* `await request.get(url)` settles
PrimaryGetReturns ==
  /\ nftCall.pc = "get"
  /\ \E r \in GetResults :
       LET c == [nftCall EXCEPT !.primary = [kind |-> r.kind,
                                             body |-> r.body]]
       IN nftCall' = IF r.kind = "throw" THEN retry(c, "catch")
                     ELSE AfterGet(c, r)
  /\ UNCHANGED componentVars

\* `await checkForAdblocker(url)` settles
ProbeReturns ==
  /\ nftCall.pc = "probe"
  /\ \E isBlocked \in BOOLEAN :
       LET c == [nftCall EXCEPT !.probes = Append(@, isBlocked)]
       IN nftCall' = IF isBlocked THEN retry(c, "blocked")
                     ELSE Throw(c, "No metadata found")
  /\ UNCHANGED componentVars

\* `await request.get(newUrl)` in retryRequest settles; a throw becomes
\* `No metadata found for <newUrl>` and leaves parseNFTMetadata
FallbackGetReturns ==
  /\ nftCall.pc \in {"retryCatch", "retryBlocked"}
  /\ \E r \in GetResults :
       nftCall' = IF r.kind = "throw"
                  THEN Throw(nftCall, "No metadata found")
                  ELSE IF nftCall.pc = "retryCatch"
                  THEN AfterGet(nftCall, r)
                  ELSE Finish(nftCall, r)
  /\ UNCHANGED componentVars

NextNFT ==
  \/ ParseStart
  \/ PrimaryGetReturns
  \/ ProbeReturns
  \/ FallbackGetReturns

SpecNFT == InitNFT /\ [][NextNFT]_vars


(***************************************************************************)
(* Properties.                                                             *)
(***************************************************************************)
\* an account and a source chain are connected
Connected == account.address # NoAddress /\ connectedSourceChain # NoChain

\* the segment ran validateAmount and the run returned normally
Returned == last.val \in {"noAccount", "skipped", "noRecipient", "done"}

\* a reset is waiting for the balance of the selected token
FetchingSelected ==
  Suspended("reset", selectedToken) \in BagToSet(inflight)

\* nothing is suspended and no debounced validation is pending
Quiescent == InFlight = 0 /\ ~timer.pending

\* C1 (as claimed): for an ERC20 or ERC1155 token, with account and source
\* chain connected, when a run of validateAmount has completed,
\* insufficientBalance is true iff enteredAmount > tokenBalance.value or the
\* native balance is zero.
C1_FungibleInsufficientIff ==
  (Returned /\ Connected /\ selectedToken.type \in {"ERC20", "ERC1155"}
     /\ tokenBalance # NoBalance)
    => (insufficientBalance
          <=> (enteredAmount > tokenBalance.value \/ ethBalance = 0))

\* C2 (as claimed): for an ETH or ERC721 token, with account and source chain
\* connected, when a run of validateAmount has completed, insufficientBalance
\* is true iff enteredAmount >= native balance.
C2_NativeInsufficientIff ==
  (Returned /\ Connected /\ selectedToken.type \in {"ETH", "ERC721"})
    => (insufficientBalance <=> enteredAmount >= ethBalance)

\* C3 (as claimed): in the state where a reset has finished, enteredAmount
\* is 0.
C3_ResetYieldsZero == last.resetDone => enteredAmount = 0

\* C4 (as claimed): every reset while the selected token is non-native calls
\* fetchBalance for the selected token, and no reset calls it for ETH.
C4_ResetFetchesNonNative ==
  last.reset # "none"
    => /\ selectedToken.type \notin {"ETH", "none"}
            => last.fetched /\ FetchingSelected
       /\ selectedToken.type = "ETH" => ~last.fetched /\ ~last.valFetch

\* C4 (amended): a reset calls fetchBalance, for the selected token, exactly
\* when an account is connected and the selected token is non-native; a
\* reset with no connected account, with ETH or with no token selected calls
\* it for no token.
C4_ResetFetchesNonNativeWhenConnected ==
  last.reset # "none"
    => /\ last.fetched
            <=> (account.address # NoAddress /\ account.isConnected
                   /\ selectedToken.type \notin {"ETH", "none"})
       /\ last.fetched => FetchingSelected
       /\ ~last.valFetch

\* C4 witness: a reset on a network change that called fetchBalance for the
\* selected ERC20 token
C4_Witness ==
  /\ last.reset = "network"
  /\ last.fetched
  /\ selectedToken.type = "ERC20"
  /\ FetchingSelected

C6_OneProducer == InFlight <= 1

\* C7 (as claimed): whenever no reset, validation or balance fetch is pending
\* or in flight, tokenBalance is absent or is the balance fetched for the
\* selected token.
C7_BalanceOfSelectedToken ==
  Quiescent
    => (tokenBalance = NoBalance \/ tokenBalance.token = selectedToken.id)

\* C8 (as claimed): when the reset a token change triggered has finished,
\* enteredAmount is 0 and no errorComputingBalance set for the previous
\* token survives.
C8_TokenSwapInvalidates ==
  (last.reset = "token" /\ last.resetDone)
    => (enteredAmount = 0 /\ ~errorComputingBalance)

\* C9 (as claimed): when the debounced validateAmount runs with no connected
\* account or no source chain, it returns with validatingAmount,
\* computingBalance, insufficientBalance and insufficientAllowance all
\* false, and calls fetchBalance for nothing.
C9_SkippedValidationClearsFlags ==
  (last.op = "debounced" /\ ~Connected)
    => /\ last.val = "noAccount"
       /\ ~last.valFetch
       /\ ~validatingAmount
       /\ ~computingBalance
       /\ ~insufficientBalance
       /\ ~insufficientAllowance

\* C10 (as claimed): for a token of a type outside {ETH, ERC20, ERC721,
\* ERC1155}, with account and source chain connected, every run of
\* validateAmount fails with UnknownTokenTypeError.
C10_UnknownTypeThrows ==
  (last.val # "none" /\ Connected /\ selectedToken.type = "ERC777")
    => last.val = "threw"

\* C10 (amended): for a token of a type outside the four, with account and
\* source chain connected, every run of validateAmount that is not skipped
\* (skipValidate is false when it is called) fails with
\* UnknownTokenTypeError.
C10_UnknownTypeThrowsNotSkipped ==
  (last.val \notin {"none", "skipped"} /\ Connected
     /\ selectedToken.type = "ERC777")
    => last.val = "threw"

\* C10 witness: the debounced validation of an unknown token type threw
C10_Witness ==
  /\ last.op = "debounced"
  /\ last.val = "threw"
  /\ selectedToken.type = "ERC777"
  /\ Connected

\* C11: the segment that calls useMaxAmount and the segment in which
\* getMaxAmountToBridge fails leave enteredAmount, tokenBalance and the five
\* validation flags as they were, and run no validateAmount: a failing
\* estimator changes nothing.
C11_MaxFailureLeavesState ==
  [][last'.op \in {"max", "maxFailed"}
       => /\ UNCHANGED <<enteredAmount, tokenBalance, validatingAmount,
                         computingBalance, insufficientBalance,
                         insufficientAllowance, errorComputingBalance>>
          /\ last'.val = "none"]_vars

\* C11 witness: getMaxAmountToBridge has failed for an amount entered before
C11_Witness ==
  /\ last.op = "maxFailed"
  /\ enteredAmount > 0
  /\ tokenBalance # NoBalance

\* C12 (as claimed): when fetchBalance has failed inside reset or
\* validateAmount, the routine leaves the state as it was before it was
\* called; in particular computingBalance and validatingAmount are not left
\* true.
C12_FetchFailureLeavesState ==
  last.op = "fetchFailed" => (~computingBalance /\ ~validatingAmount)

\* reset() run to completion on the stores s, fetchBalance (when reset calls
\* it) answering balance; skipValidate is the one the last flush computed
ResetToCompletion(s, balance) ==
  LET r == reset([s EXCEPT !.inflight = EmptyBag, !.last = NoHistory,
                           !.dirty = FALSE],
                 skipValidateIn(s), "account")
  IN IF r.last.fetched
     THEN resetResume([r EXCEPT !.inflight = EmptyBag], balance)
     ELSE r

\* what C13 compares: the amount, the balance, the flags and the local
ResetView(s) ==
  <<s.enteredAmount, s.tokenBalance, s.validatingAmount, s.computingBalance,
    s.insufficientBalance, s.insufficientAllowance, s.errorComputingBalance,
    s.previousSelectedToken>>

C19_InputEventuallyValidated == (last.op = "input") ~> ~validatingAmount

\* C20 (as claimed): when a run of validateAmount has just set the flags from
\* the current amount and balances and nothing is pending or in flight,
\* validInput and insufficientBalance are not both true.
C20_ValidInputAgrees ==
  (last.val \in {"skipped", "noRecipient", "done"} /\ Quiescent)
    => ~(validInput /\ insufficientBalance)

\* the call has ended
Ended == nftCall.pc \in {"returned", "threw"}

\* the GETs issued after the primary one
FallbackGets == SubSeq(nftCall.gets, 2, Len(nftCall.gets))

\* C14 (as claimed): once the primary GET has thrown for a url holding a
\* content id, exactly one fallback GET has been issued, to
\* https://ipfs.io/ipfs/<cid>/<tokenId>.json, and none follows it, whatever
\* the fallback GET yields and the adblock probe answers.
C14_OneFallbackGet ==
  (nftCall.primary.kind = "throw" /\ \E i \in DOMAIN nftCall.url :
                                       nftCall.url[i] = "QmCid")
    => FallbackGets = <<(<<"https://ipfs.io/ipfs/", "QmCid", "/">>
                          \o toString(nftCall.given.tokenId)
                          \o <<".json">>)>>

\* the primary GET did not throw and brought no body: it resolved to
\* nothing, or to a response whose data is undefined or the empty string
PrimaryEmpty ==
  /\ nftCall.primary.kind \in {"falsy", "response"}
  /\ nftCall.primary.body # "object"

\* C15 (as claimed): when the primary GET succeeded with an empty or missing
\* body, the adblock probe is called; blocked leads to the gateway fallback,
\* not blocked to the metadata-not-found error; no record is returned that
\* was built from an empty or missing body and no other error is thrown.
C15_EmptyBodyProbes ==
  PrimaryEmpty
    => /\ nftCall.pc = "probe" \/ nftCall.probes # <<>>
       /\ (nftCall.probes # <<>> /\ nftCall.probes[1])
            => (FallbackGets # <<>> \/ nftCall.err = "No metadata found")
       /\ (nftCall.probes # <<>> /\ ~nftCall.probes[1])
            => (nftCall.pc = "threw" /\ FallbackGets = <<>>)
       /\ nftCall.pc = "returned" => nftCall.from = "object"
       /\ nftCall.pc = "threw" => nftCall.err = "No metadata found"

\* the call failed with err before any GET and any adblock probe
FailedEarly(err) ==
  /\ nftCall.pc = "threw"
  /\ nftCall.err = err
  /\ nftCall.gets = <<>>
  /\ nftCall.probes = <<>>

\* C16: once the call has started, a token that is neither ERC721 nor
\* ERC1155 has failed with 'Not a NFT' whatever its uri; an NFT without uri
\* has failed with 'No token URI found'; an NFT whose uri does not parse has
\* failed with 'Invalid token URI'; each without a GET or a probe.
C16_PreconditionsBeforeIO ==
  LET token == nftCall.given
      isNFT == token.type \in {"ERC721", "ERC1155"}
  IN nftCall.pc # "start"
       => /\ ~isNFT => FailedEarly("Not a NFT")
          /\ (isNFT /\ token.uri = <<>>) => FailedEarly("No token URI found")
          /\ (isNFT /\ token.uri # <<>>
                /\ token.uri[1] \notin {"https://", "ipfs://"})
               => FailedEarly("Invalid token URI")

\* C16 witness: a token that is no NFT and has no uri failed on its type
C16_Witness ==
  /\ FailedEarly("Not a NFT")
  /\ nftCall.given.uri = <<>>

\* C17 (as claimed): for an NFT whose uri holds the placeholder {id}, the
\* token's uri is overwritten with the uri in which the token id stands for
\* the placeholder, no placeholder is left in it, and the primary GET (when
\* one is issued) goes to that url, also when the call fails later; a uri
\* without placeholder is fetched and left as it is.
C17_PlaceholderSubstituted ==
  LET given == nftCall.given
      token == nftCall.token
  IN (nftCall.pc # "start" /\ given.type \in {"ERC721", "ERC1155"}
        /\ given.uri # <<>>)
       => /\ includes(given.uri, "{id}")
               => /\ token.uri
                       = replace(given.uri, "{id}", toString(given.tokenId))
                  /\ ~includes(token.uri, "{id}")
          /\ ~includes(given.uri, "{id}") => token.uri = given.uri
          /\ nftCall.gets # <<>> => nftCall.gets[1] = token.uri

\* C18 (as claimed): on a successful return each of the four fields of the
\* record equals the payload's value when the payload has the field, and is
\* the empty text when the payload has not.
C18_FieldsAsPayload ==
  nftCall.pc = "returned"
    => /\ DOMAIN nftCall.metadata = Fields
       /\ \A f \in Fields :
            nftCall.metadata[f] = IF nftCall.payload[f] = Absent THEN ""
                                  ELSE nftCall.payload[f]

\* C18 (as the code has it): on a successful return the record has exactly
\* the four fields; a field is the payload's value when that value is a
\* text that is not empty, and the empty text when the payload leaves the
\* field out or holds null or the empty text for it.
C18_FieldsAsPayloadOrEmpty ==
  nftCall.pc = "returned"
    => /\ DOMAIN nftCall.metadata = Fields
       /\ \A f \in Fields :
            /\ nftCall.payload[f] = "a text" => nftCall.metadata[f] = "a text"
            /\ nftCall.payload[f] # "a text" => nftCall.metadata[f] = ""

C18_Witness ==
  /\ nftCall.pc = "returned"
  /\ nftCall.from = "object"
  /\ nftCall.payload.description = "a text"
  /\ nftCall.payload.external_url = Absent
  /\ nftCall.payload.image = Null
  /\ nftCall.payload.name = ""
  /\ nftCall.metadata.description = "a text"
  /\ nftCall.metadata.image = ""

====
